---- MODULE Spec2Model ----
(***************************************************************************)
(* Battery energy storage bid optimisation: the day-by-day workflow of     *)
(* main.py (OptimizationWorkflow), the per-day linear program of           *)
(* model/optimization_model.py (OptimizationModel), the call sequence of   *)
(* model/runner.py (BatteryStorageOptimization.run), the output tables of  *)
(* model/output_handler.py (OutputHandler) and the price dictionaries of   *)
(* data_preprocess/data_handler.py (DataHandler).                          *)
(*                                                                         *)
(* Abstractions.  The day has NumHours hours where the code has 24.  The   *)
(* LP solver is a black box that returns an optimal point of the day's     *)
(* linear program, or None when the program is infeasible; here the        *)
(* candidate points are the points of a grid of FlowLevels+1 power levels  *)
(* per variable and the solver returns any one objective-maximal feasible  *)
(* grid point.  State of charge is carried as an integer, 10000 times its  *)
(* value, so that lambda_c = 90/100 and lambda_reg = 10/100 stay exact.    *)
(***************************************************************************)
EXTENDS Integers, Sequences, FiniteSets, TLC

(* ------------------------------ bounds --------------------------------- *)
NumHours == 3
FlowLevels == 2
MaxDay == 2
MaxMonth == 2
MaxMissing == 1

(* ------------------------ program constants ---------------------------- *)
max_charge == 200
q_max_d == 100
q_max_r == 100
lambda_c_pct == 90
lambda_reg_pct == 10

\* Python's None, and a value that is not None.
None == [none |-> TRUE, value |-> 0]
Some(v) == [none |-> FALSE, value |-> v]

hour_set == 1..NumHours

(* ------------------------------ inputs --------------------------------- *)
MonthIds == 1..MaxMonth
\* calendar days of the input rows; a month's rows hold at most MaxDay of them.
DayIds == {1, 2, 8}
InitialSocChoices == {100, 200, 250}
PriceProfiles == {"peak", "night"}
\* the two price tables of the hand-made single-day scenarios: every energy
\* price 10, and energy prices 5, 15, 0, ..., each with regulation prices 0.
ScenarioProfiles == {"uniform", "spread"}

MonthSequences ==
    {s \in UNION {[1..n -> MonthIds] : n \in 1..MaxMonth} :
        \A i, j \in 1..Len(s) : i # j => s[i] # s[j]}

\* the price columns of the input files, by profile and hour.
EnergyPrice(p, h) ==
    CASE p = "peak" -> (IF h = 1 THEN 5 ELSE IF h = 2 THEN 15 ELSE 7)
      [] p = "night" -> (IF h = 1 THEN 6 ELSE IF h = 2 THEN -3 ELSE -2)
      [] p = "uniform" -> 10
      [] p = "spread" -> (IF h = 1 THEN 5 ELSE IF h = 2 THEN 15 ELSE 0)

RegUpPrice(p, h) ==
    CASE p = "peak" -> (IF h = 1 THEN 3 ELSE 1)
      [] p = "night" -> (IF h = NumHours THEN 9 ELSE -1)
      [] p \in ScenarioProfiles -> 0

RegDownPrice(p, h) ==
    CASE p = "peak" -> (IF h = NumHours THEN 2 ELSE 1)
      [] p = "night" -> -1
      [] p \in ScenarioProfiles -> 0

\* the rows of the two input files after clean_data: the months they have
\* rows for, the days of such a month with energy rows, the (hour, day) pairs
\* of those days with no energy row, and the same for the regulation file
\* (one file, so one key set for both its columns).
HourDays(days) == {<<h, d>> : h \in hour_set, d \in days}

DaySets == {S \in SUBSET DayIds : S # {} /\ Cardinality(S) <= MaxDay}

\* the regulation file has rows for every day of the energy file or for one.
RegulationDaySets(energy_days) ==
    {energy_days} \cup {{d} : d \in energy_days}

\* the (hour, day) pairs without a row: at most MaxMissing, and every day
\* keeps a row.
AbsentSets(days) ==
    {A \in SUBSET HourDays(days) :
        /\ Cardinality(A) <= MaxMissing
        /\ \A d \in days : \E h \in hour_set : <<h, d>> \notin A}

DatasetsOf(profiles) ==
    UNION {UNION {
        {[profile |-> p, data_months |-> dm,
          energy_days |-> ed, energy_absent |-> pair[1],
          regulation_days |-> rd, regulation_absent |-> pair[2]] :
            p \in profiles,
            dm \in SUBSET MonthIds \ {{}},
            pair \in {q \in AbsentSets(ed) \X AbsentSets(rd) :
                        Cardinality(q[1]) + Cardinality(q[2]) <= MaxMissing}}
        : rd \in RegulationDaySets(ed)} : ed \in DaySets}

Datasets == DatasetsOf(PriceProfiles)
\* the scenarios are single days: one day per month, or a second day that has
\* no regulation prices.
ScenarioDatasets ==
    {ds \in DatasetsOf(ScenarioProfiles) :
        Cardinality(ds.energy_days) = 1 \/ ds.regulation_days # ds.energy_days}

(* --------------------------- small helpers ----------------------------- *)

RECURSIVE SumOver(_, _)
SumOver(f, S) ==
    IF S = {} THEN 0
    ELSE LET x == CHOOSE y \in S : TRUE IN f[x] + SumOver(f, S \ {x})

\* iteration over a Python set of day numbers: a set of at most four ints is
\* a hash table of 8 slots, an int hashes to itself, and iteration goes by
\* slot; the days of DayIds fall in different slots.
SetSlot(d) == d % 8

RECURSIVE SetOrder(_)
SetOrder(S) ==
    IF S = {} THEN <<>>
    ELSE LET m == CHOOSE x \in S : \A y \in S : SetSlot(x) <= SetSlot(y)
         IN <<m>> \o SetOrder(S \ {m})

(* ------------------- data_handler.py: DataHandler ---------------------- *)
\* fill_missing_hour: the filled dictionary and the dictionary of added keys.
FilledKeys(data_dict) ==
    {<<k, i, j>> : k \in {key[1] : key \in DOMAIN data_dict},
                   j \in {key[3] : key \in DOMAIN data_dict},
                   i \in hour_set}

\* every key of the filled dictionary reported as missing.
MissingKeys_All(data_dict) == FilledKeys(data_dict)


MissingKeys(data_dict) == FilledKeys(data_dict) \ DOMAIN data_dict

fill_missing_hour(data_dict) ==
    [filled |-> [key \in DOMAIN data_dict \cup MissingKeys(data_dict) |->
                    IF key \in DOMAIN data_dict THEN data_dict[key] ELSE 0],
     missing |-> MissingKeys(data_dict)]

\* process_energy_price / process_regulation_price: the month's rows as a
\* dictionary keyed (month, hour, day), before fill_missing_hour.
EnergyRows(ds, month) ==
    [key \in {<<month, hd[1], hd[2]>> :
                 hd \in IF month \in ds.data_months
                        THEN HourDays(ds.energy_days) \ ds.energy_absent
                        ELSE {}} |->
        EnergyPrice(ds.profile, key[2])]

RegulationUpRows(ds, month) ==
    [key \in {<<month, hd[1], hd[2]>> :
                 hd \in IF month \in ds.data_months
                        THEN HourDays(ds.regulation_days) \ ds.regulation_absent
                        ELSE {}} |->
        RegUpPrice(ds.profile, key[2])]

RegulationDownRows(ds, month) ==
    [key \in {<<month, hd[1], hd[2]>> :
                 hd \in IF month \in ds.data_months
                        THEN HourDays(ds.regulation_days) \ ds.regulation_absent
                        ELSE {}} |->
        RegDownPrice(ds.profile, key[2])]

\* data_loader: the six fields it sets on the DataHandler.
LoadedData(ds, month) ==
    LET e == fill_missing_hour(EnergyRows(ds, month))
        u == fill_missing_hour(RegulationUpRows(ds, month))
        d == fill_missing_hour(RegulationDownRows(ds, month))
    IN [energy_price_params |-> e.filled,
        missing_energy |-> e.missing,
        regulation_up_params |-> u.filled,
        missing_regulation_up |-> u.missing,
        regulation_down_params |-> d.filled,
        missing_regulation_down |-> d.missing]

\* data_loader's return value, as main.py turns it into a list.
DaysOf(params, month) == {key[3] : key \in {k \in DOMAIN params : k[1] = month}}

(* ---------------- optimization_model.py: the day's LP ------------------ *)
\* OptimizationModel.__init__, lines 29-31: the fields the constraints read.
self_max_charge == max_charge
\* the discharge limit taken from the wrong constructor argument.
self_q_max_d_FromMaxCharge == max_charge


self_q_max_d == q_max_d
\* the recharge limit taken from the wrong constructor argument.
self_q_max_r_FromMaxCharge == max_charge

self_q_max_r == q_max_r

\* continuous_var_dict: every variable has lower bound 0 and no upper bound;
\* the grid holds the candidate values of a power variable, in steps of the
\* nameplate power.
GridR == {k * q_max_r : k \in 0..FlowLevels}
GridD == {k * q_max_d : k \in 0..FlowLevels}

HourFlows ==
    [quantity_charge : GridR, quantity_discharge : GridD,
     quantity_regulation_up : GridD, quantity_regulation_down : GridR]

\* state_of_charge[hour] - state_of_charge[hour-1], times 10000 (lines 139-151).
SocStep(f) ==
    100 * lambda_c_pct * f.quantity_charge
    - 100 * lambda_c_pct * f.quantity_discharge
    + lambda_c_pct * lambda_reg_pct * f.quantity_regulation_up
    + lambda_c_pct * lambda_reg_pct * f.quantity_regulation_down

\* the upper-bound constraints of lines 179-185 left out.
SocInBounds_NoUpper(soc) == soc >= 0

\* the upper bound taken as strict.
SocInBounds_Strict(soc) == soc < 10000 * self_max_charge /\ soc >= 0

\* state-of-charge bounds (lines 179-192), on the scaled value.
SocInBounds(soc) == soc <= 10000 * self_max_charge /\ soc >= 0

\* per-hour power bounds (lines 194-226).
RechargeBound(f) ==
    /\ f.quantity_charge + f.quantity_regulation_down <= self_q_max_r
    /\ f.quantity_charge + f.quantity_regulation_down >= 0

DischargeBound(f) ==
    /\ f.quantity_discharge + f.quantity_regulation_up <= self_q_max_d
    /\ f.quantity_discharge + f.quantity_regulation_up >= 0

BoundedHourFlows == {f \in HourFlows : RechargeBound(f) /\ DischargeBound(f)}

\* missing-hour constraints (lines 228-247); cons holds the hours named by
\* the constraints that add_constraints added.
MissingZero(cons, h, f) ==
    /\ h \in cons.zero_energy => f.quantity_discharge + f.quantity_charge = 0
    /\ h \in cons.zero_regulation_up => f.quantity_regulation_up = 0
    /\ h \in cons.zero_regulation_down => f.quantity_regulation_down = 0

\* the daily cap compared with the energy capacity instead of the power.
ChargeCycleCap_MaxCharge(total) == total <= self_max_charge

\* daily cycle constraints (lines 318-340), on the running totals: the
\* variables are not negative, so a total over the cap is never undone.
ChargeCycleCap(total) == total <= self_q_max_r

\* the discharge cap compared with the energy capacity instead of the power.
DischargeCycleCap_MaxCharge(total) == total <= self_max_charge

DischargeCycleCap(total) == total <= self_q_max_d

\* the objective of the other variant, with regulation-down subtracted.
HourRevenue_RegDownSubtracted(obj, h, f) ==
    f.quantity_discharge * obj.energy[h]
    - f.quantity_charge * obj.energy[h]
    + f.quantity_regulation_up * obj.regulation_up[h]
    - f.quantity_regulation_down * obj.regulation_down[h]

\* one hour's term of the objective of set_objective_function (lines 100-117).
HourRevenue(obj, h, f) ==
    f.quantity_discharge * obj.energy[h]
    - f.quantity_charge * obj.energy[h]
    + f.quantity_regulation_up * obj.regulation_up[h]
    + f.quantity_regulation_down * obj.regulation_down[h]

\* the recursion constraint added for hour 1 as well.
SocAt_EveryHour(h, socPrev, f) == socPrev + SocStep(f)

\* lines 137-156: the recursion constraint is added "if hour > 1 else None";
\* state_of_charge[1] is tied to no flow.
SocAt(h, socPrev, f) == IF h > 1 THEN socPrev + SocStep(f) ELSE socPrev

\* the points of hours h..NumHours that satisfy every constraint, given the
\* state of charge of hour h-1 and the totals of hours 1..h-1: the flows, the
\* state of charge that the recursion of lines 139-151 gives them (hour 1 has
\* no such constraint) and their part of the objective.
RECURSIVE Plans(_, _, _, _, _, _)
Plans(cons, obj, h, socPrev, totR, totD) ==
    IF h > NumHours
    THEN {[flows |-> <<>>, state_of_charge |-> <<>>, objective_value |-> 0]}
    ELSE UNION {
        LET soc == SocAt(h, socPrev, f)
            nr == totR + f.quantity_charge + f.quantity_regulation_down
            nd == totD + f.quantity_discharge + f.quantity_regulation_up
        IN IF /\ MissingZero(cons, h, f)
              /\ ChargeCycleCap(nr) /\ DischargeCycleCap(nd)
              /\ SocInBounds(soc)
           THEN {[flows |-> <<f>> \o rest.flows,
                  state_of_charge |-> <<soc>> \o rest.state_of_charge,
                  objective_value |->
                      HourRevenue(obj, h, f) + rest.objective_value]
                 : rest \in Plans(cons, obj, h + 1, soc, nr, nd)}
           ELSE {}
        : f \in BoundedHourFlows}

\* state_of_charge[1] is fixed by every boundary constraint that was added
\* (lines 159-177); with none it is free within its bounds.
SocGrid == {(k * max_charge) \div 2 : k \in 0..2}

BoundaryValues(cons) ==
    IF cons.soc_init = {} THEN {10000 * v : v \in SocGrid}
    ELSE IF Cardinality(cons.soc_init) = 1
         THEN {10000 * v : v \in cons.soc_init}
         ELSE {}

\* the feasible points of the day's program, each with its objective value.
Feasible(cons, obj) ==
    UNION {Plans(cons, obj, 1, soc1, 0, 0) : soc1 \in BoundaryValues(cons)}

\* the objective minimised instead of maximised.
Optimal_Least(F) ==
    UNION {{t \in F : \A v \in values : v >= t.objective_value}
           : values \in {{s.objective_value : s \in F}}}

\* the points of F with the largest objective value.
Optimal(F) ==
    UNION {{t \in F : \A v \in values : v <= t.objective_value}
           : values \in {{s.objective_value : s \in F}}}

\* Model.solve(): an optimal solution, or None when there is none.
Solutions(cons, obj) ==
    UNION {IF F = {} THEN {[none |-> TRUE]}
           ELSE {[none |-> FALSE,
                  flows |-> s.flows,
                  state_of_charge |-> s.state_of_charge,
                  objective_value |-> s.objective_value]
                 : s \in Optimal(F)}
           : F \in {Feasible(cons, obj)}}

\* add_constraints, lines 159-169: the boundary constraint of a day after the
\* first of its month, on the initial_charge argument.
BoundaryAfterFirstDay(day, initial_charge) ==
    IF day > 1 THEN {initial_charge} ELSE {}

\* day 1 bound to the carryover's starting value instead of initial_charge.
BoundaryFirstDay_Zero(day, initial_charge) ==
    IF day = 1 THEN {0} ELSE {}

\* add_constraints, lines 171-177: the boundary constraint of day 1.
BoundaryFirstDay(day, initial_charge) ==
    IF day = 1 THEN {initial_charge} ELSE {}

\* the loops over the missing dictionaries left out.
ZeroedHours_None(missing) == {}

\* add_constraints, lines 228-247: one constraint per key of the missing
\* dictionary, on the variable of the key's hour.
ZeroedHours(missing) == {key[2] : key \in missing}

\* the loops of lines 233, 239 and 246 bind self.month and self.day to each
\* key in turn; the dictionary is in insertion order: by month, by day in the
\* order of the set of days (lines 136-138 of data_handler.py), by hour.
KeyBefore(a, b) ==
    \/ a[1] < b[1]
    \/ a[1] = b[1] /\ SetSlot(a[3]) < SetSlot(b[3])
    \/ a[1] = b[1] /\ a[3] = b[3] /\ a[2] <= b[2]

LastKey(missing) == CHOOSE key \in missing : \A o \in missing : KeyBefore(o, key)

LoopTarget(current, missing) ==
    IF missing = {} THEN current
    ELSE <<LastKey(missing)[1], LastKey(missing)[3]>>

\* add_constraints(interval, initial_charge, missing_energy,
\* missing_regulation_up, missing_regulation_down) on model om.
add_constraints(om, initial_charge, missing_energy, missing_regulation_up, missing_regulation_down) ==
    LET bound == LoopTarget(LoopTarget(LoopTarget(<<om.month, om.day>>,
                     missing_energy), missing_regulation_up),
                     missing_regulation_down)
    IN [om EXCEPT
          !.stage = "constraints",
          !.cons = [soc_init |-> BoundaryAfterFirstDay(om.day, initial_charge)
                                  \cup BoundaryFirstDay(om.day, initial_charge),
                    zero_energy |-> ZeroedHours(missing_energy),
                    zero_regulation_up |-> ZeroedHours(missing_regulation_up),
                    zero_regulation_down |-> ZeroedHours(missing_regulation_down)],
          !.month = bound[1],
          !.day = bound[2]]

\* set_objective_function reads the three dictionaries at
\* (self.month, hour, self.day) for every hour; a key that is not there
\* raises KeyError.
ObjectiveKeys(om) == {<<om.month, h, om.day>> : h \in hour_set}

ObjectiveOf(om, dh) ==
    [energy |-> [h \in hour_set |-> dh.energy_price_params[<<om.month, h, om.day>>]],
     regulation_up |->
        [h \in hour_set |-> dh.regulation_up_params[<<om.month, h, om.day>>]],
     regulation_down |->
        [h \in hour_set |-> dh.regulation_down_params[<<om.month, h, om.day>>]]]

(* ----------------- output_handler.py: OutputHandler -------------------- *)
HeaderLine == [header |-> TRUE]

\* DataFrame.to_csv(mode, header) on a file held as its sequence of lines.
to_csv(file, rows, mode, header) ==
    LET lines == (IF header THEN <<HeaderLine>> ELSE <<>>) \o rows
    IN IF mode = "w" THEN lines ELSE file \o lines

\* save_state_of_charge and save_schedule, lines 91-92 and 128-129.
HourlyMode(month, day) == IF month = 1 /\ day = 1 THEN "w" ELSE "a"
WritesHeader(month, day, set_of_months, days) ==
    month = set_of_months[1] /\ day = days[1]

\* save_total_cycle_per_day and save_schedule_daily, lines 201 and 227.
DailyMode(month, day, set_of_months, days) ==
    IF month = set_of_months[1] /\ day = days[1] THEN "w" ELSE "a"

StateOfChargeRows(sol, month, day) ==
    [i \in hour_set |->
        [header |-> FALSE, Hour |-> i, Day |-> day, Month |-> month,
         State_of_Charge |-> sol.state_of_charge[i]]]

ScheduleRows(sol, month, day) ==
    [i \in hour_set |->
        [header |-> FALSE, Hour |-> i, Day |-> day, Month |-> month,
         Energy_Charged |-> sol.flows[i].quantity_charge,
         Energy_Discharged |-> sol.flows[i].quantity_discharge,
         Regulation_UP |-> sol.flows[i].quantity_regulation_up,
         Regulation_Down |-> sol.flows[i].quantity_regulation_down]]

\* save_total_cycle_per_day, lines 153-193.
TotalOf(sol, field) ==
    SumOver([i \in hour_set |-> sol.flows[i][field]], hour_set)

\* the comparison of number_of_cycles_check, against twice the nameplate.
FullCharge_Twice(sol) ==
    TotalOf(sol, "quantity_charge") + TotalOf(sol, "quantity_regulation_down")
        = 2 * self_q_max_r

FullCharge(sol) ==
    TotalOf(sol, "quantity_charge") + TotalOf(sol, "quantity_regulation_down")
        = self_q_max_r

FullDischarge(sol) ==
    TotalOf(sol, "quantity_discharge") + TotalOf(sol, "quantity_regulation_up")
        = self_q_max_d

\* one cycle counted for each side that is full.
CyclesOf_PerSide(sol) ==
    (IF FullCharge(sol) THEN 1 ELSE 0) + (IF FullDischarge(sol) THEN 1 ELSE 0)

CyclesOf(sol) == IF FullCharge(sol) /\ FullDischarge(sol) THEN 1 ELSE 0

\* pd.read_csv: the first line names the columns, the rest are the rows.
HasHeader(file) == file # <<>> /\ file[1].header

DataRows(file) == SelectSeq(Tail(file), LAMBDA line : ~line.header)

RECURSIVE SeqSum(_, _)
SeqSum(rows, field) ==
    IF rows = <<>> THEN 0 ELSE Head(rows)[field] + SeqSum(Tail(rows), field)

\* the total taken from the day just written instead of the whole file.
TotalRevenue_LastDay(daily_schedule) ==
    daily_schedule[Len(daily_schedule)].Tota_Daily_Revenue

\* save_total_revenue, lines 242-247.
TotalRevenue(daily_schedule) == SeqSum(DataRows(daily_schedule), "Tota_Daily_Revenue")

\* save_total_cycles, lines 254-257: groupby('Month') sum.
MonthlyCycles(total_cycles_daily) ==
    LET rows == DataRows(total_cycles_daily)
        ms == {rows[i].Month : i \in 1..Len(rows)}
    IN [m \in ms |->
          SeqSum(SelectSeq(rows, LAMBDA r : r.Month = m), "Total_Cycle")]

\* save_all_outputs: the six files after the six saves, in their order.
SavedFiles(f, sol, month, day, set_of_months, days) ==
    LET hdr == WritesHeader(month, day, set_of_months, days)
        daily == to_csv(f.daily_schedule,
                        <<[header |-> FALSE, Month |-> month, Day |-> day,
                           Tota_Daily_Revenue |-> sol.objective_value]>>,
                        DailyMode(month, day, set_of_months, days), hdr)
        cycles == to_csv(f.total_cycles_daily,
                         <<[header |-> FALSE, Month |-> month, Day |-> day,
                            Total_Cycle |-> CyclesOf(sol)]>>,
                         DailyMode(month, day, set_of_months, days), hdr)
    IN [state_of_charge |->
            to_csv(f.state_of_charge, StateOfChargeRows(sol, month, day),
                   HourlyMode(month, day), hdr),
        schedule |->
            to_csv(f.schedule, ScheduleRows(sol, month, day),
                   HourlyMode(month, day), hdr),
        daily_schedule |-> daily,
        total_revenue |-> <<TotalRevenue(daily)>>,
        total_cycles_daily |-> cycles,
        total_cycles |-> <<MonthlyCycles(cycles)>>]

\* save_all_outputs ends without a return statement (lines 55-70).
save_all_outputs_result(sol) == None

(* --------------- test_functions.py: number_of_cycles_check ------------- *)
number_of_cycles_check(schedule, month, day, max_d, max_r) ==
    LET rows == SelectSeq(schedule,
                    LAMBDA r : ~r.header /\ r.Day = day /\ r.Month = month)
        total_charge == SeqSum(rows, "Energy_Charged")
                          + SeqSum(rows, "Regulation_Down")
        total_discharge == SeqSum(rows, "Energy_Discharged")
                             + SeqSum(rows, "Regulation_UP")
    IN IF total_charge = 2 * max_r /\ total_discharge = 2 * max_d
       THEN 1 ELSE 0

(* ------------------------------- state --------------------------------- *)
VARIABLES
    months,                 \* OptimizationWorkflow.months
    initial_state_of_charge,\* OptimizationWorkflow.initial_state_of_charge
    previous_day_state_of_charge_value,
    dataset,                \* the rows of the input files
    entry,                  \* who calls add_constraints, see AddConstraints
    month_index,            \* position of the month loop (main.py:51)
    set_of_days,            \* main.py:53
    day_index,              \* position of the day loop (main.py:54)
    data_handler,           \* the fields data_loader sets
    optimization_model,     \* the OptimizationModel and its docplex model
    solution,               \* what solve() returned last
    files,                  \* the CSV files of data/output
    database,               \* the tables of data/database.db
    pc,                     \* position in run_optimization_workflow
    processed,              \* history: the days whose outputs were saved
    error,                  \* the exception that ended the run
    solved,                 \* history: the models solved and their solutions
    run,                    \* the first run of the workflow, or the second
    first_run               \* history: what the first run left behind

vars == <<months, initial_state_of_charge, previous_day_state_of_charge_value,
          dataset, entry, month_index, set_of_days, day_index, data_handler,
          optimization_model, solution, files, database, pc, processed,
          error, solved, run, first_run>>

inputs == <<months, initial_state_of_charge, dataset, entry>>
earlier == <<run, first_run>>

EmptyData ==
    [energy_price_params |-> <<>>, missing_energy |-> {},
     regulation_up_params |-> <<>>, missing_regulation_up |-> {},
     regulation_down_params |-> <<>>, missing_regulation_down |-> {}]

EmptyCons ==
    [soc_init |-> {}, zero_energy |-> {}, zero_regulation_up |-> {},
     zero_regulation_down |-> {}]

ZeroObjective ==
    [energy |-> [h \in hour_set |-> 0],
     regulation_up |-> [h \in hour_set |-> 0],
     regulation_down |-> [h \in hour_set |-> 0]]

\* a table of data/database.db: not there, or there with its rows.
NoTable == [exists |-> FALSE, rows |-> <<>>]
EmptyTable == [exists |-> TRUE, rows |-> <<>>]

EmptyFiles ==
    [state_of_charge |-> <<>>, schedule |-> <<>>, daily_schedule |-> <<>>,
     total_revenue |-> <<>>, total_cycles_daily |-> <<>>, total_cycles |-> <<>>]

\* the csv files of the earlier run left in data/output.
CleanOutput_Keep(f) == f

\* main.py:43-45: every csv file of data/output is removed.
CleanOutput(f) == EmptyFiles

Unbuilt ==
    [stage |-> "unbuilt", month |-> 0, day |-> 0,
     objective |-> ZeroObjective, cons |-> EmptyCons]

\* what a run leaves behind: the models it solved with their solutions, the
\* days it saved, the files, the tables and the exception that ended it.
NothingBefore ==
    [solved |-> <<>>, processed |-> <<>>, files |-> EmptyFiles,
     database |-> [schedule |-> NoTable, state_of_charge |-> NoTable],
     error |-> "none"]

\* OptimizationWorkflow.__init__ (main.py:18-24) and the objects that
\* run_optimization_workflow builds before its loop (main.py:43-47).
InitWith(datasets) ==
    /\ months \in MonthSequences
    /\ initial_state_of_charge \in InitialSocChoices
    /\ previous_day_state_of_charge_value = Some(0)
    /\ dataset \in datasets
    /\ entry \in {"runner", "declared"}
    /\ month_index = 1
    /\ set_of_days = <<>>
    /\ day_index = 1
    /\ data_handler = EmptyData
    /\ optimization_model = Unbuilt
    /\ solution = [none |-> TRUE]
    /\ files = CleanOutput(EmptyFiles)
    /\ database = [schedule |-> NoTable, state_of_charge |-> NoTable]
    /\ pc = "load"
    /\ processed = <<>>
    /\ error = "none"
    /\ solved = <<>>
    /\ run = "first"
    /\ first_run = NothingBefore

Init == InitWith(Datasets)

\* the same program on the price tables of the scenarios.
ScenarioInit == InitWith(ScenarioDatasets)

month == months[month_index]
day == set_of_days[day_index]

Raise(exception) ==
    /\ pc' = "failed"
    /\ error' = exception

\* main.py:51-53: the next month of the loop, data_loader(month) and the list
\* of its days; with the months exhausted, the database import follows.
DataLoader ==
    /\ pc = "load"
    /\ month_index <= Len(months)
    /\ LET dh == LoadedData(dataset, month)
           days == SetOrder(DaysOf(dh.energy_price_params, month))
       IN /\ data_handler' = dh
          /\ set_of_days' = days
          /\ day_index' = 1
          /\ IF days = <<>>
             THEN /\ month_index' = month_index + 1
                  /\ pc' = "load"
             ELSE /\ month_index' = month_index
                  /\ pc' = "create"
    /\ UNCHANGED <<inputs, earlier, solved, processed, previous_day_state_of_charge_value,
                   optimization_model, solution, files, database, error>>

\* runner.py:30-32 -> create_variables: a new docplex model, self.month and
\* self.day (optimization_model.py:42-70).
CreateVariables ==
    /\ pc = "create"
    /\ optimization_model' =
          [stage |-> "variables", month |-> month, day |-> day,
           objective |-> ZeroObjective, cons |-> EmptyCons]
    /\ pc' = "objective"
    /\ UNCHANGED <<inputs, earlier, solved, processed, previous_day_state_of_charge_value, month_index,
                   set_of_days, day_index, data_handler, solution, files,
                   database, error>>

\* runner.py:34-39 -> set_objective_function.
SetObjective ==
    /\ pc = "objective"
    /\ ObjectiveKeys(optimization_model) \subseteq
          (DOMAIN data_handler.energy_price_params
             \cap DOMAIN data_handler.regulation_up_params
             \cap DOMAIN data_handler.regulation_down_params)
    /\ optimization_model' =
          [optimization_model EXCEPT
              !.stage = "objective",
              !.objective = ObjectiveOf(optimization_model, data_handler)]
    /\ pc' = "constraints"
    /\ UNCHANGED <<inputs, earlier, solved, processed, previous_day_state_of_charge_value, month_index,
                   set_of_days, day_index, data_handler, solution, files,
                   database, error>>

SetObjectiveKeyError ==
    /\ pc = "objective"
    /\ ~(ObjectiveKeys(optimization_model) \subseteq
          (DOMAIN data_handler.energy_price_params
             \cap DOMAIN data_handler.regulation_up_params
             \cap DOMAIN data_handler.regulation_down_params))
    /\ Raise("KeyError")
    /\ UNCHANGED <<inputs, earlier, solved, processed, previous_day_state_of_charge_value, month_index,
                   set_of_days, day_index, data_handler, optimization_model,
                   solution, files, database>>

\* runner.py:41-48: run passes six arguments (the keys, initial_state_of_charge,
\* the three missing dictionaries and previous_day_state) to add_constraints,
\* which declares five (optimization_model.py:119-126): the call raises
\* TypeError before the method body runs.
RunnerAddConstraints ==
    /\ pc = "constraints"
    /\ entry = "runner"
    /\ Raise("TypeError")
    /\ UNCHANGED <<inputs, earlier, solved, processed, previous_day_state_of_charge_value, month_index,
                   set_of_days, day_index, data_handler, optimization_model,
                   solution, files, database>>

\* add_constraints called with the five parameters it declares, the second
\* being run's initial_state_of_charge as in runner.py:43.
AddConstraints ==
    /\ pc = "constraints"
    /\ entry = "declared"
    /\ optimization_model' =
          add_constraints(optimization_model, initial_state_of_charge,
                          data_handler.missing_energy,
                          data_handler.missing_regulation_up,
                          data_handler.missing_regulation_down)
    /\ pc' = "solve"
    /\ UNCHANGED <<inputs, earlier, solved, processed, previous_day_state_of_charge_value, month_index,
                   set_of_days, day_index, data_handler, solution, files,
                   database, error>>

\* the solver is a function of the model it is given: in the second run the
\* k-th model, when it is the k-th model of the first run, gets the solution
\* it got then.
Replayed(lp, k) ==
    /\ run = "second"
    /\ k <= Len(first_run.solved)
    /\ first_run.solved[k].model = lp

SolverChoice(lp, k) ==
    IF Replayed(lp, k) THEN {first_run.solved[k].solution}
    ELSE Solutions(lp.cons, lp.objective)

\* runner.py:50-52 -> solve (optimization_model.py:342-350).
Solve ==
    /\ pc = "solve"
    /\ LET lp == [cons |-> optimization_model.cons,
                  objective |-> optimization_model.objective]
       IN /\ solution' \in SolverChoice(lp, Len(solved) + 1)
          /\ solved' = Append(solved, [model |-> lp, solution |-> solution'])
    /\ optimization_model' = [optimization_model EXCEPT !.stage = "solved"]
    /\ pc' = "outputs"
    /\ UNCHANGED <<inputs, earlier, processed,
                   previous_day_state_of_charge_value, month_index,
                   set_of_days, day_index, data_handler, files, database,
                   error>>

\* main.py:107-119 -> handle_outputs (main.py:149-172) -> save_all_outputs;
\* save_total_revenue finds its column when the first line of
\* daily_schedule.csv is the header line.
HandleOutputs ==
    /\ pc = "outputs"
    /\ ~solution.none
    /\ HasHeader(SavedFiles(files, solution, month, day, months,
                            set_of_days).daily_schedule)
    /\ files' = SavedFiles(files, solution, month, day, months, set_of_days)
    /\ previous_day_state_of_charge_value' = save_all_outputs_result(solution)
    /\ processed' = Append(processed, [month |-> month, day |-> day,
                                       solution |-> solution])
    /\ pc' = "end"
    /\ UNCHANGED <<inputs, earlier, solved, month_index, set_of_days, day_index,
                   data_handler, optimization_model, solution, database, error>>

\* the day without a solution skipped and the loop continued.
HandleOutputsNoSolution_Skip ==
    /\ pc = "outputs"
    /\ solution.none
    /\ pc' = "end"
    /\ UNCHANGED <<inputs, earlier, solved, processed, previous_day_state_of_charge_value, month_index,
                   set_of_days, day_index, data_handler, optimization_model,
                   solution, files, database, error>>

\* save_total_revenue (output_handler.py:242-245): read_csv takes the first
\* line of daily_schedule.csv for the column names; when that line is a data
\* row, the column Tota_Daily_Revenue is not there and the lookup raises
\* KeyError, after the first three saves.
HandleOutputsKeyError ==
    /\ pc = "outputs"
    /\ ~solution.none
    /\ LET saved == SavedFiles(files, solution, month, day, months, set_of_days)
       IN /\ ~HasHeader(saved.daily_schedule)
          /\ files' = [files EXCEPT
                          !.state_of_charge = saved.state_of_charge,
                          !.schedule = saved.schedule,
                          !.daily_schedule = saved.daily_schedule]
    /\ Raise("KeyError")
    /\ UNCHANGED <<inputs, earlier, solved, processed, previous_day_state_of_charge_value, month_index,
                   set_of_days, day_index, data_handler, optimization_model,
                   solution, database>>

\* save_state_of_charge calls get_value on the solution; solve returned None.
HandleOutputsNoSolution ==
    /\ pc = "outputs"
    /\ solution.none
    /\ Raise("AttributeError")
    /\ UNCHANGED <<inputs, earlier, solved, processed, previous_day_state_of_charge_value, month_index,
                   set_of_days, day_index, data_handler, optimization_model,
                   solution, files, database>>

\* main.py:120 model.end(), then the next day of the loop of main.py:54.
EndModel ==
    /\ pc = "end"
    /\ IF day_index < Len(set_of_days)
       THEN /\ day_index' = day_index + 1
            /\ month_index' = month_index
            /\ pc' = "create"
       ELSE /\ day_index' = day_index
            /\ month_index' = month_index + 1
            /\ pc' = "load"
    /\ UNCHANGED <<inputs, earlier, solved, processed, previous_day_state_of_charge_value, set_of_days,
                   data_handler, optimization_model, solution, files,
                   database, error>>

\* main.py:60-68 -> create_db_table_from_csv (data_process.py:44-54): the
\* table schedule is dropped and created with the nine columns of
\* column_formats, the first line of schedule.csv is skipped and the insert
\* of the next line, with seven values for nine placeholders, raises
\* sqlite3.ProgrammingError; a day's schedule has NumHours lines, so there is
\* a next line.
UpdateDatabase ==
    /\ pc = "load"
    /\ month_index > Len(months)
    /\ Len(files.schedule) > 1
    /\ database' = [database EXCEPT !.schedule = EmptyTable]
    /\ Raise("ProgrammingError")
    /\ UNCHANGED <<inputs, earlier, solved, processed, previous_day_state_of_charge_value, month_index,
                   set_of_days, day_index, data_handler, optimization_model,
                   solution, files>>

\* no day was processed: open() of schedule.csv (data_process.py:49) raises
\* FileNotFoundError, after the table was dropped and created.
UpdateDatabaseNoFile ==
    /\ pc = "load"
    /\ month_index > Len(months)
    /\ files.schedule = <<>>
    /\ database' = [database EXCEPT !.schedule = EmptyTable]
    /\ Raise("FileNotFoundError")
    /\ UNCHANGED <<inputs, earlier, solved, processed, previous_day_state_of_charge_value, month_index,
                   set_of_days, day_index, data_handler, optimization_model,
                   solution, files>>

Next ==
    \/ DataLoader
    \/ CreateVariables
    \/ SetObjective
    \/ SetObjectiveKeyError
    \/ RunnerAddConstraints
    \/ AddConstraints
    \/ Solve
    \/ HandleOutputs
    \/ HandleOutputsKeyError
    \/ HandleOutputsNoSolution
    \/ EndModel
    \/ UpdateDatabase
    \/ UpdateDatabaseNoFile

Spec == Init /\ [][Next]_vars

\* the workflow run a second time on the same input files, months and initial
\* state of charge, after the first run has ended: a new OptimizationWorkflow
\* (main.py:18-24), the output folder cleaned (main.py:43-45), new DataHandler
\* and OptimizationModel (main.py:46-47); data/database.db stays.
Rerun ==
    /\ pc = "failed"
    /\ run = "first"
    /\ run' = "second"
    /\ first_run' = [solved |-> solved, processed |-> processed,
                     files |-> files, database |-> database, error |-> error]
    /\ previous_day_state_of_charge_value' = Some(0)
    /\ month_index' = 1
    /\ set_of_days' = <<>>
    /\ day_index' = 1
    /\ data_handler' = EmptyData
    /\ optimization_model' = Unbuilt
    /\ solution' = [none |-> TRUE]
    /\ files' = CleanOutput(files)
    /\ pc' = "load"
    /\ processed' = <<>>
    /\ solved' = <<>>
    /\ error' = "none"
    /\ UNCHANGED <<inputs, database>>

RerunNext == Next \/ Rerun

RerunSpec == Init /\ [][RerunNext]_vars

ScenarioSpec == ScenarioInit /\ [][Next]_vars

(* ------------------------------ claims --------------------------------- *)
Solved == ~solution.none
InDay == pc \in {"solve", "outputs", "end"}
AfterSolve == pc \in {"outputs", "end"} /\ Solved

Charge(h) == solution.flows[h].quantity_charge
Discharge(h) == solution.flows[h].quantity_discharge
RegUp(h) == solution.flows[h].quantity_regulation_up
RegDown(h) == solution.flows[h].quantity_regulation_down
Soc(h) == solution.state_of_charge[h]

DayRecharge == SumOver([h \in hour_set |-> Charge(h) + RegDown(h)], hour_set)
DayDischarge == SumOver([h \in hour_set |-> Discharge(h) + RegUp(h)], hour_set)

LastLine(file) == file[Len(file)]

\* C1: when the constraints of a day with calendar day > 1 have been added and
\* a day was solved before it in the run, the model's soc[1] constraint is on
\* the soc[24] of that previous day's solution.
C1_BoundaryIsPreviousDayEnd ==
    (pc = "solve" /\ day > 1 /\ Solved) =>
        {10000 * v : v \in optimization_model.cons.soc_init}
            = {solution.state_of_charge[NumHours]}

\* C2: the carryover is 0 until a day has been solved, and once a solved day's
\* outputs are handled it is that day's hour-24 state of charge.
C2_CarryoverIsEndingSoc ==
    /\ files.state_of_charge = <<>> =>
          previous_day_state_of_charge_value = Some(0)
    /\ pc = "end" =>
          /\ ~previous_day_state_of_charge_value.none
          /\ 10000 * previous_day_state_of_charge_value.value
                = solution.state_of_charge[NumHours]

\* C3: for calendar day 1 of any month, the model's only soc[1] constraint is
\* on the run's initial_state_of_charge, and the solution starts there.
C3_DayOneUsesInitialSoc ==
    (InDay /\ day = 1) =>
        /\ optimization_model.cons.soc_init = {initial_state_of_charge}
        /\ AfterSolve => Soc(1) = 10000 * initial_state_of_charge

C3_Witness ==
    /\ AfterSolve /\ day = 1 /\ month_index = 2
    /\ files.state_of_charge # <<>>
    /\ previous_day_state_of_charge_value.none

\* C4: in every solution, 0 <= soc[h] <= max_charge for every hour.
C4_SocWithinCapacity ==
    Solved => \A h \in hour_set : Soc(h) >= 0 /\ Soc(h) <= 10000 * max_charge

C4_Witness ==
    /\ AfterSolve
    /\ Soc(1) = 10000 * max_charge
    /\ \E h \in hour_set : Soc(h) < Soc(1)

\* C5: in every solution, 0 <= charge + reg_down <= q_max_r and
\* 0 <= discharge + reg_up <= q_max_d in every hour.
C5_HourlyPowerWithinNameplate ==
    Solved => \A h \in hour_set :
        /\ 0 <= Charge(h) + RegDown(h) /\ Charge(h) + RegDown(h) <= q_max_r
        /\ 0 <= Discharge(h) + RegUp(h) /\ Discharge(h) + RegUp(h) <= q_max_d

C5_Witness ==
    /\ AfterSolve
    /\ \E h \in hour_set : Charge(h) + RegDown(h) = q_max_r
    /\ \E h \in hour_set : Discharge(h) + RegUp(h) = q_max_d

\* C6: in every solution and for every hour h > 1, soc[h] = soc[h-1]
\* + eta*charge[h] - eta*discharge[h] - eta*lambda_reg*reg_up[h]
\* + eta*lambda_reg*reg_down[h]: regulation-up lowers the state of charge.
C6_RegUpLowersSoc ==
    Solved => \A h \in hour_set \ {1} :
        Soc(h) = Soc(h - 1)
                 + 100 * lambda_c_pct * Charge(h)
                 - 100 * lambda_c_pct * Discharge(h)
                 - lambda_c_pct * lambda_reg_pct * RegUp(h)
                 + lambda_c_pct * lambda_reg_pct * RegDown(h)

\* C7: in the solution of a day, charge and discharge are 0 in every hour
\* whose (month, hour, day) is in missing_energy, reg_up is 0 for the keys of
\* missing_regulation_up and reg_down for those of missing_regulation_down.
C7_MissingHoursAreZero ==
    AfterSolve =>
        /\ \A h \in hour_set :
              <<month, h, day>> \in data_handler.missing_energy
                 => Charge(h) = 0 /\ Discharge(h) = 0
        /\ \A h \in hour_set :
              <<month, h, day>> \in data_handler.missing_regulation_up
                 => RegUp(h) = 0
        /\ \A h \in hour_set :
              <<month, h, day>> \in data_handler.missing_regulation_down
                 => RegDown(h) = 0

C7_Witness ==
    /\ AfterSolve
    /\ \E h \in hour_set : <<month, h, day>> \in data_handler.missing_energy
    /\ \E h \in hour_set : Charge(h) + Discharge(h) > 0

\* C8: in every solution the day's total charge + reg_down is at most q_max_r
\* and its total discharge + reg_up at most q_max_d.
C8_DailyThroughputWithinNameplate ==
    Solved => DayRecharge <= q_max_r /\ DayDischarge <= q_max_d

C8_Witness ==
    AfterSolve /\ DayRecharge = q_max_r /\ DayDischarge = q_max_d

\* C9: every row of total_cycles_daily.csv has Total_Cycle 0 or 1, and so has
\* the count the unit test takes of the day just written.
C9_CycleCountIsZeroOrOne ==
    /\ \A i \in 1..Len(files.total_cycles_daily) :
          \/ files.total_cycles_daily[i].header
          \/ files.total_cycles_daily[i].Total_Cycle \in {0, 1}
    /\ pc = "end" =>
          number_of_cycles_check(files.schedule, month, day, q_max_d, q_max_r)
              \in {0, 1}

C9_Witness ==
    /\ \E i \in 1..Len(files.total_cycles_daily) :
          /\ ~files.total_cycles_daily[i].header
          /\ files.total_cycles_daily[i].Total_Cycle = 1
    /\ \E i \in 1..Len(files.total_cycles_daily) :
          /\ ~files.total_cycles_daily[i].header
          /\ files.total_cycles_daily[i].Total_Cycle = 0

C11_EachFlowWithinNameplate ==
    Solved => \A h \in hour_set :
        /\ 0 <= Charge(h) /\ Charge(h) <= q_max_r
        /\ 0 <= RegDown(h) /\ RegDown(h) <= q_max_r
        /\ 0 <= Discharge(h) /\ Discharge(h) <= q_max_d
        /\ 0 <= RegUp(h) /\ RegUp(h) <= q_max_d

C11_Witness ==
    /\ AfterSolve
    /\ \E h \in hour_set : Charge(h) = q_max_r
    /\ \E h \in hour_set : RegUp(h) = q_max_d

PositionIn(seq, x) == CHOOSE i \in 1..Len(seq) : seq[i] = x
RowsOf(file) == SelectSeq(file, LAMBDA line : ~line.header)

\* C12: the days of the month being processed are in strictly ascending
\* calendar order, and the days recorded so far follow the order of the
\* caller's month list.
C12_MonthsInOrderDaysAscending ==
    /\ \A i, j \in 1..Len(set_of_days) :
          i < j => set_of_days[i] < set_of_days[j]
    /\ \A i, j \in 1..Len(RowsOf(files.daily_schedule)) :
          i < j =>
             PositionIn(months, RowsOf(files.daily_schedule)[i].Month)
                <= PositionIn(months, RowsOf(files.daily_schedule)[j].Month)

\* C13: the model of every day that both input files have prices for goes
\* from create variables to set objective, to add constraints, to solve, one
\* step after the other: each of the four steps is followed by the next one,
\* on a model that create_variables started empty.
C13_ModelStepsInOrder ==
    [][/\ pc = "create" =>
             /\ pc' = "objective"
             /\ optimization_model'.stage = "variables"
             /\ optimization_model'.cons = EmptyCons
             /\ optimization_model'.objective = ZeroObjective
       /\ (/\ pc = "objective"
           /\ ObjectiveKeys(optimization_model) \subseteq
                 (DOMAIN data_handler.energy_price_params
                    \cap DOMAIN data_handler.regulation_up_params
                    \cap DOMAIN data_handler.regulation_down_params)) =>
             pc' = "constraints" /\ optimization_model'.stage = "objective"
       /\ pc = "constraints" =>
             pc' = "solve" /\ optimization_model'.stage = "constraints"
       /\ pc = "solve" =>
             pc' = "outputs" /\ optimization_model'.stage = "solved"]_vars

\* C14: when a day's solve gives no solution the run ends there with an
\* exception: nothing is written for the day, and after a failure no further
\* step of the run is taken.
C14_FailedSolveAbortsRun ==
    [][/\ (pc = "outputs" /\ solution.none) =>
             /\ pc' = "failed"
             /\ error' = "AttributeError"
             /\ UNCHANGED <<files, database, month_index, day_index>>
       /\ pc = "failed" => FALSE]_vars

C14_Witness ==
    /\ pc = "failed"
    /\ error = "AttributeError"
    /\ solution.none
    /\ optimization_model.stage = "solved"
    /\ day_index < Len(set_of_days) \/ month_index < Len(months)

\* C15: in a run whose initial state of charge is above max_charge the solve
\* returns no solution and no row is written to any output file.
C15_InfeasibleDayEmitsNothing ==
    initial_state_of_charge > max_charge =>
        /\ files = EmptyFiles
        /\ optimization_model.stage = "solved" => solution.none
        /\ pc \notin {"end", "done"}

C15_Witness ==
    /\ initial_state_of_charge > max_charge
    /\ optimization_model.stage = "solved"
    /\ pc = "failed"
    /\ files = EmptyFiles

\* the rows that belong to the k-th saved day in a file of NumHours rows a day.
DayBlock(file, k) ==
    [h \in hour_set |-> RowsOf(file)[(k - 1) * NumHours + h]]

HoldsDay(file, k) ==
    /\ Len(RowsOf(file)) >= k * NumHours
    /\ \A h \in hour_set :
          /\ DayBlock(file, k)[h].Month = processed[k].month
          /\ DayBlock(file, k)[h].Day = processed[k].day
          /\ DayBlock(file, k)[h].Hour = h

\* C16: the state-of-charge and schedule files hold NumHours rows for every
\* day saved so far, in the order the days were saved, and nothing else: no
\* save removes the rows of an earlier day.
C16_HourlyRowsOfEveryDayKept ==
    pc = "end" =>
        /\ Len(RowsOf(files.state_of_charge)) = NumHours * Len(processed)
        /\ Len(RowsOf(files.schedule)) = NumHours * Len(processed)
        /\ \A k \in 1..Len(processed) :
              HoldsDay(files.state_of_charge, k) /\ HoldsDay(files.schedule, k)

FullCycleDay(sol) ==
    /\ SumOver([h \in hour_set |-> sol.flows[h].quantity_charge
                   + sol.flows[h].quantity_regulation_down], hour_set) = q_max_r
    /\ SumOver([h \in hour_set |-> sol.flows[h].quantity_discharge
                   + sol.flows[h].quantity_regulation_up], hour_set) = q_max_d

SavedIn(m) == {k \in 1..Len(processed) : processed[k].month = m}

PriceAt(params, h) == params[<<month, h, day>>]

\* C18: the daily revenue written for a solved day is the day's
\* sum over h of discharge[h]*energy_price[h] - charge[h]*energy_price[h]
\* + reg_up[h]*reg_up_price[h] + reg_down[h]*reg_down_price[h], with the
\* prices the data handler holds for (month, h, day).
C18_DailyRevenueIsObjective ==
    pc = "end" =>
        LastLine(files.daily_schedule).Tota_Daily_Revenue =
            SumOver([h \in hour_set |->
                  Discharge(h) * PriceAt(data_handler.energy_price_params, h)
                - Charge(h) * PriceAt(data_handler.energy_price_params, h)
                + RegUp(h) * PriceAt(data_handler.regulation_up_params, h)
                + RegDown(h) * PriceAt(data_handler.regulation_down_params, h)],
              hour_set)

C18_Witness ==
    /\ pc = "end"
    /\ LastLine(files.daily_schedule).Tota_Daily_Revenue > 0
    /\ \E h \in hour_set : RegDown(h) > 0
    /\ \E h \in hour_set : Discharge(h) > 0
    /\ LastLine(files.daily_schedule).Day = day
    /\ LastLine(files.daily_schedule).Month = month

\* the single day of the scenarios: month 1, day 1, initial state of charge
\* 100, no missing hour, solved.
ScenarioDay(profile) ==
    /\ AfterSolve
    /\ dataset.profile = profile
    /\ initial_state_of_charge = 100
    /\ dataset.energy_absent = {} /\ dataset.regulation_absent = {}
    /\ month = 1 /\ day = 1

C20_ChargeAtOneDischargeAtTwo ==
    ScenarioDay("spread") =>
        /\ Charge(1) > 0
        /\ Discharge(2) > 0
        /\ solution.objective_value > 0
        /\ Soc(1) = 10000 * initial_state_of_charge
                      + 100 * lambda_c_pct * Charge(1)
        /\ Soc(1) > 10000 * initial_state_of_charge
        /\ Soc(2) < Soc(1)

\* a day of the month loop is in progress: data_handler holds the
\* dictionaries of months[month_index].
DayLoaded ==
    pc \in {"create", "objective", "constraints", "solve", "outputs", "end"}

\* fill_missing_hour took source to (filled, missing): every (month, day) of
\* filled has all hours, source prices are kept, added prices are 0 and missing
\* is the set of added keys.
FilledFrom(source, filled, missing) ==
    /\ \A key \in DOMAIN filled :
          \A h \in hour_set : <<key[1], h, key[3]>> \in DOMAIN filled
    /\ \A key \in DOMAIN source :
          key \in DOMAIN filled /\ filled[key] = source[key]
    /\ \A key \in DOMAIN filled \ DOMAIN source : filled[key] = 0
    /\ missing = DOMAIN filled \ DOMAIN source

\* C22: after data_loader, each of the three price dictionaries has every hour
\* of every (month, day) it has a key for, keeps the price of every source
\* row, has price 0 at every added key, and its missing set is exactly the
\* set of added keys.
C22_FillCompletesEveryDay ==
    DayLoaded =>
        /\ FilledFrom(EnergyRows(dataset, month),
                      data_handler.energy_price_params,
                      data_handler.missing_energy)
        /\ FilledFrom(RegulationUpRows(dataset, month),
                      data_handler.regulation_up_params,
                      data_handler.missing_regulation_up)
        /\ FilledFrom(RegulationDownRows(dataset, month),
                      data_handler.regulation_down_params,
                      data_handler.missing_regulation_down)

C22_Witness ==
    /\ DayLoaded
    /\ data_handler.missing_energy # {}
    /\ \E key \in DOMAIN data_handler.energy_price_params :
          key \notin data_handler.missing_energy
          /\ key[3] \in {k[3] : k \in data_handler.missing_energy}
          /\ data_handler.energy_price_params[key] # 0
    /\ Cardinality(DaysOf(data_handler.energy_price_params, month)) > 1

\* the keys of the model's day that one of the three price dictionaries lacks.
AbsentObjectiveKeys(om) ==
    {key \in ObjectiveKeys(om) :
        \/ key \notin DOMAIN data_handler.energy_price_params
        \/ key \notin DOMAIN data_handler.regulation_up_params
        \/ key \notin DOMAIN data_handler.regulation_down_params}

\* C23: when a price of the scheduled day is in none of the rows of a price
\* dictionary, even after the fill, building the day's model does not end the
\* run with an error.
C23_AbsentPriceDoesNotRaise ==
    (optimization_model.stage = "variables"
        /\ AbsentObjectiveKeys(optimization_model) # {}) => pc # "failed"

\* C24: in run() as written, for an initial state of charge within
\* [0, max_charge], a day whose objective has been set goes on through
\* add_constraints to solve: the call of add_constraints does not end the run.
C24_RunReachesSolve ==
    (entry = "runner"
        /\ initial_state_of_charge \in 0..max_charge
        /\ optimization_model.stage = "objective") => pc # "failed"

\* C25: in the model of day D of month M an hour is forced to zero energy
\* (regulation-up, regulation-down) activity only if (M, hour, D) is a key of
\* the missing energy (regulation-up, regulation-down) dictionary.
C25_ZeroingOnlyOwnDay ==
    InDay =>
        /\ \A h \in optimization_model.cons.zero_energy :
              <<month, h, day>> \in data_handler.missing_energy
        /\ \A h \in optimization_model.cons.zero_regulation_up :
              <<month, h, day>> \in data_handler.missing_regulation_up
        /\ \A h \in optimization_model.cons.zero_regulation_down :
              <<month, h, day>> \in data_handler.missing_regulation_down

\* the schedule with no flow and the state of charge constant at soc.
IdleSchedule(soc) ==
    [flows |-> [h \in hour_set |->
                   [quantity_charge |-> 0, quantity_discharge |-> 0,
                    quantity_regulation_up |-> 0,
                    quantity_regulation_down |-> 0]],
     state_of_charge |-> [h \in hour_set |-> 10000 * soc],
     objective_value |-> 0]

\* C26: when the run's initial state of charge is within [0, max_charge],
\* every day's program is feasible, whatever the prices and the missing
\* hours: the idle schedule at the boundary state of charge satisfies every
\* constraint, and solve returns a solution.
C26_DayFeasibleWithinCapacity ==
    (pc = "outputs" /\ initial_state_of_charge \in 0..max_charge) =>
        /\ Solved
        /\ \A b \in optimization_model.cons.soc_init :
              IdleSchedule(b) \in Feasible(optimization_model.cons,
                                           optimization_model.objective)

C26_Witness ==
    /\ pc = "outputs"
    /\ Solved
    /\ initial_state_of_charge = max_charge
    /\ optimization_model.cons.soc_init = {max_charge}
    /\ optimization_model.cons.zero_energy # {}
    /\ day_index > 1
    /\ \E h \in hour_set : optimization_model.objective.energy[h] < 0

\* C27: the flows of hour 1 change no state of charge: soc[1] is the boundary
\* value whatever they are, and soc[24] - soc[1] is the sum of the recursion
\* steps of hours 2..24.
C27_HourOneFlowsLeaveSoc ==
    AfterSolve =>
        /\ {Soc(1)} = {10000 * b : b \in optimization_model.cons.soc_init}
        /\ Soc(NumHours) - Soc(1) =
              SumOver([h \in hour_set \ {1} |-> SocStep(solution.flows[h])],
                      hour_set \ {1})

C27_Witness ==
    /\ AfterSolve
    /\ Discharge(1) > 0
    /\ Soc(1) = 10000 * initial_state_of_charge
    /\ Soc(NumHours) # Soc(1)

\* the total written in total_revenue.csv, 0 before the file exists.
RecordedRevenue(f) == IF f.total_revenue = <<>> THEN 0 ELSE f.total_revenue[1]

OneLeadingHeader(file) ==
    /\ HasHeader(file)
    /\ \A i \in 2..Len(file) : ~file[i].header

\* C29: when the loop over the months is over and days were saved, each of
\* the four per-day files has exactly one header line, its first line, so
\* that skipping one line skips no data row and leaves no header line.
C29_OneHeaderFirstLine ==
    (pc = "load" /\ month_index > Len(months) /\ processed # <<>>) =>
        /\ OneLeadingHeader(files.state_of_charge)
        /\ OneLeadingHeader(files.schedule)
        /\ OneLeadingHeader(files.total_cycles_daily)
        /\ OneLeadingHeader(files.daily_schedule)

\* C30: add_constraints leaves the month and day fields of the model as
\* create_variables set them, whatever the three missing dictionaries hold.
C30_AddConstraintsKeepsMonthDay ==
    [][(pc = "constraints" /\ pc' = "solve") =>
          /\ optimization_model'.month = optimization_model.month
          /\ optimization_model'.day = optimization_model.day]_vars

====
